---- MODULE Spec2Model ----
(***************************************************************************)
(* Model of src/features/modals/NodeModal/index.tsx: the node edit modal   *)
(* (edit session, coercion, diff, document patch, edit/view state          *)
(* machine) together with the two stores it talks to.                      *)
(*                                                                         *)
(* Text is a sequence of one-character strings, so that formatting and     *)
(* parsing are computed and not assumed.  JavaScript values are tagged     *)
(* records; records of different shapes are unequal.                       *)
(*                                                                         *)
(* Modelled domain: numbers are integers (plus NaN and the infinities),    *)
(* texts hold no fraction, exponent or radix prefix, the keys of the       *)
(* documents are not canonical array indices (the rows handed to           *)
(* normalizeNodeData include one), and no key or path segment names an     *)
(* inherited property such as "length".                                    *)
(***************************************************************************)
EXTENDS Integers, Sequences, FiniteSets, TLC

(***************************************************************************)
(* JavaScript values                                                       *)
(***************************************************************************)
Null == [t |-> "null"]

Undefined == [t |-> "undefined"]

Bool(b) == [t |-> "boolean", b |-> b]

Num(n) == [t |-> "number", n |-> n]

NaN == [t |-> "number", special |-> "NaN"]

PosInfinity == [t |-> "number", special |-> "Infinity"]

NegInfinity == [t |-> "number", special |-> "-Infinity"]

Str(s) == [t |-> "string", s |-> s]

Obj(entries) == [t |-> "object", o |-> entries]

Arr(items) == [t |-> "array", a |-> items]

IsFiniteNumber(v) == v.t = "number" /\ "n" \in DOMAIN v

(***************************************************************************)
(* Characters and fixed texts                                              *)
(***************************************************************************)
NL == "\n"

QUOTE == "\""

BACKSLASH == "\\"

DigitChars == <<"0", "1", "2", "3", "4", "5", "6", "7", "8", "9">>

IsDigit(c) == \E i \in 1..10 : DigitChars[i] = c

DigitVal(c) == (CHOOSE i \in 1..10 : DigitChars[i] = c) - 1

IsWhitespace(c) == c \in {" ", NL, "\t", "\r"}

TxtNull == <<"n", "u", "l", "l">>

TxtTrue == <<"t", "r", "u", "e">>

TxtFalse == <<"f", "a", "l", "s", "e">>

TxtUndefined == <<"u", "n", "d", "e", "f", "i", "n", "e", "d">>

TxtInfinity == <<"I", "n", "f", "i", "n", "i", "t", "y">>

TxtNaN == <<"N", "a", "N">>

RECURSIVE NatToText(_)
NatToText(n) ==
  IF n < 10 THEN <<DigitChars[n + 1]>>
  ELSE NatToText(n \div 10) \o <<DigitChars[(n % 10) + 1]>>

RECURSIVE DigitsToNat(_, _)
DigitsToNat(s, acc) ==
  IF s = <<>> THEN acc
  ELSE DigitsToNat(Tail(s), 10 * acc + DigitVal(Head(s)))

AllDigits(s) == s # <<>> /\ \A i \in 1..Len(s) : IsDigit(s[i])

RECURSIVE TrimLeft(_)
TrimLeft(s) ==
  IF s # <<>> /\ IsWhitespace(Head(s)) THEN TrimLeft(Tail(s)) ELSE s

RECURSIVE TrimRight(_)
TrimRight(s) ==
  IF s # <<>> /\ IsWhitespace(s[Len(s)])
  THEN TrimRight(SubSeq(s, 1, Len(s) - 1)) ELSE s

(***************************************************************************)
(* String(v): the text of a value                                          *)
(***************************************************************************)
String(v) ==
  CASE v.t = "null" -> TxtNull
    [] v.t = "undefined" -> TxtUndefined
    [] v.t = "boolean" -> IF v.b THEN TxtTrue ELSE TxtFalse
    [] v.t = "string" -> v.s
    [] v.t = "number" ->
         IF IsFiniteNumber(v)
         THEN IF v.n < 0 THEN <<"-">> \o NatToText(0 - v.n) ELSE NatToText(v.n)
         ELSE IF v = NaN THEN TxtNaN
         ELSE IF v = PosInfinity THEN TxtInfinity
         ELSE <<"-">> \o TxtInfinity

(***************************************************************************)
(* Number(val) of a text: surrounding white space is dropped, the empty    *)
(* text is 0, a signed run of digits is its value (leading zeros allowed,  *)
(* "-0" is zero), the infinities are recognised, anything else is NaN.     *)
(***************************************************************************)
Number(val) ==
  LET s == TrimRight(TrimLeft(val))
      signed == s # <<>> /\ Head(s) \in {"-", "+"}
      body == IF signed THEN Tail(s) ELSE s
      neg == signed /\ Head(s) = "-"
  IN IF s = <<>> THEN Num(0)
     ELSE IF body = TxtInfinity THEN (IF neg THEN NegInfinity ELSE PosInfinity)
     ELSE IF AllDigits(body)
          THEN Num(IF neg THEN 0 - DigitsToNat(body, 0) ELSE DigitsToNat(body, 0))
     ELSE NaN

(***************************************************************************)
(* coerceValue: raw text to a typed scalar                                 *)
(***************************************************************************)
coerceValue_NoRoundTrip(val) ==
  IF val = TxtNull THEN Null
  ELSE IF val = TxtTrue THEN Bool(TRUE)
  ELSE IF val = TxtFalse THEN Bool(FALSE)
  ELSE LET n == Number(val)
       IN IF n # NaN THEN n ELSE Str(val)

coerceValue(val) ==
  IF val = TxtNull THEN Null
  ELSE IF val = TxtTrue THEN Bool(TRUE)
  ELSE IF val = TxtFalse THEN Bool(FALSE)
  ELSE LET n == Number(val)
       IN IF n # NaN /\ String(n) = val THEN n ELSE Str(val)

(***************************************************************************)
(* JSON.stringify(value, null, 2)                                          *)
(***************************************************************************)
RECURSIVE Spaces(_)
Spaces(n) == IF n <= 0 THEN <<>> ELSE <<" ">> \o Spaces(n - 1)

RECURSIVE EscapeChars(_)
EscapeChars(s) ==
  IF s = <<>> THEN <<>>
  ELSE LET c == Head(s)
       IN (IF c = QUOTE THEN <<BACKSLASH, QUOTE>>
           ELSE IF c = BACKSLASH THEN <<BACKSLASH, BACKSLASH>>
           ELSE IF c = NL THEN <<BACKSLASH, "n">>
           ELSE <<c>>) \o EscapeChars(Tail(s))

QuoteJSON(s) == <<QUOTE>> \o EscapeChars(s) \o <<QUOTE>>

\* the properties JSON.stringify writes: those whose value is not undefined
RECURSIVE DefinedEntries(_)
DefinedEntries(entries) ==
  IF entries = <<>> THEN <<>>
  ELSE (IF Head(entries).v = Undefined THEN <<>> ELSE <<Head(entries)>>)
       \o DefinedEntries(Tail(entries))

RECURSIVE SerializeJSON(_, _), SerializeItems(_, _), SerializeEntries(_, _)
SerializeJSON(v, ind) ==
  CASE v.t = "null" -> TxtNull
    [] v.t = "undefined" -> TxtNull
    [] v.t = "boolean" -> String(v)
    [] v.t = "number" -> IF IsFiniteNumber(v) THEN String(v) ELSE TxtNull
    [] v.t = "string" -> QuoteJSON(v.s)
    [] v.t = "array" ->
         IF v.a = <<>> THEN <<"[", "]">>
         ELSE <<"[", NL>> \o SerializeItems(v.a, ind + 2)
              \o <<NL>> \o Spaces(ind) \o <<"]">>
    [] v.t = "object" ->
         LET es == DefinedEntries(v.o)
         IN IF es = <<>> THEN <<"{", "}">>
            ELSE <<"{", NL>> \o SerializeEntries(es, ind + 2)
                 \o <<NL>> \o Spaces(ind) \o <<"}">>

SerializeItems(items, ind) ==
  Spaces(ind) \o SerializeJSON(Head(items), ind)
  \o (IF Len(items) = 1 THEN <<>>
      ELSE <<",", NL>> \o SerializeItems(Tail(items), ind))

SerializeEntries(es, ind) ==
  Spaces(ind) \o QuoteJSON(Head(es).k) \o <<":", " ">>
  \o SerializeJSON(Head(es).v, ind)
  \o (IF Len(es) = 1 THEN <<>>
      ELSE <<",", NL>> \o SerializeEntries(Tail(es), ind))

JSONstringify(v) == SerializeJSON(v, 0)

(***************************************************************************)
(* Property assignment on a property list: an existing key keeps its       *)
(* position and takes the new value; a new key that is a canonical array   *)
(* index goes among the index keys, which come first in ascending order;   *)
(* any other new key is appended.                                          *)
(***************************************************************************)
ReplaceAt(seq, i, x) ==
  SubSeq(seq, 1, i - 1) \o <<x>> \o SubSeq(seq, i + 1, Len(seq))

HasKey(entries, k) == \E i \in 1..Len(entries) : entries[i].k = k

IndexOfKey(entries, k) == CHOOSE i \in 1..Len(entries) : entries[i].k = k

IsArrayIndex(k) == AllDigits(k) /\ NatToText(DigitsToNat(k, 0)) = k

AssignEntry(entries, k, v) ==
  IF HasKey(entries, k)
  THEN ReplaceAt(entries, IndexOfKey(entries, k), [k |-> k, v |-> v])
  ELSE IF IsArrayIndex(k)
       THEN LET before == Cardinality({i \in 1..Len(entries) :
                             /\ IsArrayIndex(entries[i].k)
                             /\ DigitsToNat(entries[i].k, 0)
                                  < DigitsToNat(k, 0)})
            IN SubSeq(entries, 1, before) \o <<[k |-> k, v |-> v]>>
               \o SubSeq(entries, before + 1, Len(entries))
       ELSE Append(entries, [k |-> k, v |-> v])

LookupEntry(entries, k) ==
  IF HasKey(entries, k) THEN entries[IndexOfKey(entries, k)].v ELSE Undefined

(***************************************************************************)
(* JSON.parse(text): result [ok, v]; ok = FALSE is the SyntaxError.        *)
(* Positions are 1-based indexes into the text.                            *)
(***************************************************************************)
ParseFail == [ok |-> FALSE]

ParseOk(v, i) == [ok |-> TRUE, v |-> v, i |-> i]

RECURSIVE SkipWs(_, _)
SkipWs(s, i) ==
  IF i <= Len(s) /\ IsWhitespace(s[i]) THEN SkipWs(s, i + 1) ELSE i

HasAt(s, i, lit) ==
  /\ i + Len(lit) - 1 <= Len(s)
  /\ SubSeq(s, i, i + Len(lit) - 1) = lit

RECURSIVE DigitsEnd(_, _)
DigitsEnd(s, i) ==
  IF i <= Len(s) /\ IsDigit(s[i]) THEN DigitsEnd(s, i + 1) ELSE i

\* number := "-"? ( "0" | [1-9][0-9]* )
ParseNumber(s, i) ==
  LET neg == s[i] = "-"
      b == IF neg THEN i + 1 ELSE i
      e == DigitsEnd(s, b)
  IN IF e = b THEN ParseFail
     ELSE IF s[b] = "0" /\ e > b + 1 THEN ParseFail
     ELSE LET n == DigitsToNat(SubSeq(s, b, e - 1), 0)
          IN ParseOk(Num(IF neg THEN 0 - n ELSE n), e)

\* i is the position after the opening quote
RECURSIVE ParseString(_, _, _)
ParseString(s, i, acc) ==
  IF i > Len(s) THEN ParseFail
  ELSE IF s[i] = QUOTE THEN ParseOk(acc, i + 1)
  ELSE IF s[i] = NL THEN ParseFail
  ELSE IF s[i] = BACKSLASH
       THEN IF i + 1 > Len(s) THEN ParseFail
            ELSE IF s[i + 1] \in {QUOTE, BACKSLASH, "/"}
                 THEN ParseString(s, i + 2, Append(acc, s[i + 1]))
            ELSE IF s[i + 1] = "n" THEN ParseString(s, i + 2, Append(acc, NL))
            ELSE ParseFail
  ELSE ParseString(s, i + 1, Append(acc, s[i]))

RECURSIVE ParseValue(_, _), ParseElements(_, _, _), ParseMembers(_, _, _)
ParseValue(s, i0) ==
  LET i == SkipWs(s, i0)
  IN IF i > Len(s) THEN ParseFail
     ELSE IF s[i] = "{" THEN
       LET j == SkipWs(s, i + 1)
       IN IF j <= Len(s) /\ s[j] = "}" THEN ParseOk(Obj(<<>>), j + 1)
          ELSE ParseMembers(s, j, <<>>)
     ELSE IF s[i] = "[" THEN
       LET j == SkipWs(s, i + 1)
       IN IF j <= Len(s) /\ s[j] = "]" THEN ParseOk(Arr(<<>>), j + 1)
          ELSE ParseElements(s, j, <<>>)
     ELSE IF s[i] = QUOTE THEN
       LET r == ParseString(s, i + 1, <<>>)
       IN IF r.ok THEN ParseOk(Str(r.v), r.i) ELSE ParseFail
     ELSE IF s[i] = "-" \/ IsDigit(s[i]) THEN ParseNumber(s, i)
     ELSE IF HasAt(s, i, TxtNull) THEN ParseOk(Null, i + 4)
     ELSE IF HasAt(s, i, TxtTrue) THEN ParseOk(Bool(TRUE), i + 4)
     ELSE IF HasAt(s, i, TxtFalse) THEN ParseOk(Bool(FALSE), i + 5)
     ELSE ParseFail

ParseElements(s, i, acc) ==
  LET r == ParseValue(s, i)
  IN IF ~r.ok THEN ParseFail
     ELSE LET j == SkipWs(s, r.i)
          IN IF j > Len(s) THEN ParseFail
             ELSE IF s[j] = "]" THEN ParseOk(Arr(Append(acc, r.v)), j + 1)
             ELSE IF s[j] = "," THEN ParseElements(s, j + 1, Append(acc, r.v))
             ELSE ParseFail

ParseMembers(s, i0, acc) ==
  LET i == SkipWs(s, i0)
  IN IF i > Len(s) \/ s[i] # QUOTE THEN ParseFail
     ELSE LET k == ParseString(s, i + 1, <<>>)
          IN IF ~k.ok THEN ParseFail
             ELSE LET c == SkipWs(s, k.i)
                  IN IF c > Len(s) \/ s[c] # ":" THEN ParseFail
                     ELSE LET r == ParseValue(s, c + 1)
                          IN IF ~r.ok THEN ParseFail
                             ELSE LET j == SkipWs(s, r.i)
                                      es == AssignEntry(acc, k.v, r.v)
                                  IN IF j > Len(s) THEN ParseFail
                                     ELSE IF s[j] = "}" THEN ParseOk(Obj(es), j + 1)
                                     ELSE IF s[j] = "," THEN ParseMembers(s, j + 1, es)
                                     ELSE ParseFail

JSONparse(text) ==
  LET r == ParseValue(text, 1)
  IN IF r.ok /\ SkipWs(text, r.i) > Len(text)
     THEN [ok |-> TRUE, v |-> r.v] ELSE ParseFail

(***************************************************************************)
(* Property access as the engine performs it                               *)
(***************************************************************************)
\* the property key a path segment or row key denotes
PropKey(seg) == IF seg.t = "number" THEN String(seg) ELSE seg.s

IsIndexSeg(seg) == seg.t = "number" /\ IsFiniteNumber(seg) /\ seg.n >= 0

\* target[seg]; reading a property of null or undefined throws a TypeError
GetProperty(target, seg) ==
  CASE target.t \in {"null", "undefined"} -> [threw |-> TRUE]
    [] target.t = "object" ->
         [threw |-> FALSE, v |-> LookupEntry(target.o, PropKey(seg))]
    [] target.t = "array" ->
         [threw |-> FALSE,
          v |-> IF IsIndexSeg(seg) /\ seg.n < Len(target.a)
                THEN target.a[seg.n + 1] ELSE Undefined]
    [] target.t = "string" ->
         [threw |-> FALSE,
          v |-> IF IsIndexSeg(seg) /\ seg.n < Len(target.s)
                THEN Str(<<target.s[seg.n + 1]>>) ELSE Undefined]
    [] OTHER -> [threw |-> FALSE, v |-> Undefined]

\* for (const seg of path) target = target[seg]
RECURSIVE Navigate(_, _)
Navigate(target, path) ==
  IF path = <<>> THEN [threw |-> FALSE, v |-> target]
  ELSE LET r == GetProperty(target, Head(path))
       IN IF r.threw THEN r ELSE Navigate(r.v, Tail(path))

\* target[key] = value, in a strict-mode module: a map takes the property,
\* an array takes it as an own property that serialization does not show,
\* null, undefined and primitives throw a TypeError
SetProperty_Append(target, key, value) ==
  CASE target.t = "object" ->
         [threw |-> FALSE,
          v |-> Obj(Append(target.o, [k |-> key, v |-> value]))]
    [] target.t = "array" -> [threw |-> FALSE, v |-> target]
    [] OTHER -> [threw |-> TRUE]

SetProperty(target, key, value) ==
  CASE target.t = "object" ->
         [threw |-> FALSE, v |-> Obj(AssignEntry(target.o, key, value))]
    [] target.t = "array" -> [threw |-> FALSE, v |-> target]
    [] OTHER -> [threw |-> TRUE]

\* the tree `parsed` after the container reached by `path` was mutated in
\* place into newTarget
RECURSIVE SetAtPath(_, _, _)
SetAtPath(root, path, newTarget) ==
  IF path = <<>> THEN newTarget
  ELSE LET seg == Head(path)
           child == GetProperty(root, seg).v
           sub == SetAtPath(child, Tail(path), newTarget)
       IN IF root.t = "object"
          THEN Obj(ReplaceAt(root.o, IndexOfKey(root.o, PropKey(seg)),
                             [k |-> PropKey(seg), v |-> sub]))
          ELSE Arr(ReplaceAt(root.a, seg.n + 1, sub))

(***************************************************************************)
(* Rows, edit fields and the diff                                          *)
(***************************************************************************)
\* row.key is absent when it is falsy: the empty text stands for it
NoKey == <<>>

Row(key, value, type) == [key |-> key, value |-> value, type |-> type]

\* variant: the kind of the row is not looked at
IsEditableRow_KeyOnly(row) ==
  row.key # NoKey

IsEditableRow(row) ==
  row.type # "array" /\ row.type # "object" /\ row.key # NoKey

\* row.value ?? ""
NullishToEmpty(v) == IF v.t \in {"null", "undefined"} THEN Str(<<>>) ELSE v

\* the body of the effect that initialises the edit fields
SeedFields(rows) ==
  LET keys == {rows[i].key : i \in {j \in 1..Len(rows) : IsEditableRow(rows[j])}}
      last(k) == CHOOSE i \in 1..Len(rows) :
                   /\ IsEditableRow(rows[i]) /\ rows[i].key = k
                   /\ \A j \in (i + 1)..Len(rows) :
                        ~(IsEditableRow(rows[j]) /\ rows[j].key = k)
  IN [k \in keys |-> String(NullishToEmpty(rows[last(k)].value))]

\* useEffect(..., [isEditing, nodeData])
SeedEffect(editing, node, fields) ==
  IF editing /\ node # Null THEN SeedFields(node.text) ELSE fields

\* nodeData.text.map(...).filter(u => u !== null); index is 0-based
RECURSIVE ComputeUpdatesFrom(_, _, _)
ComputeUpdatesFrom(rows, fields, i) ==
  IF i > Len(rows) THEN <<>>
  ELSE LET row == rows[i]
           changed == /\ IsEditableRow(row)
                      /\ row.key \in DOMAIN fields
                      /\ String(row.value) # fields[row.key]
       IN (IF changed
           THEN <<[index |-> i - 1, value |-> coerceValue(fields[row.key])]>>
           ELSE <<>>)
          \o ComputeUpdatesFrom(rows, fields, i + 1)

ComputeUpdates(rows, fields) == ComputeUpdatesFrom(rows, fields, 1)

(***************************************************************************)
(* normalizeNodeData and jsonPathToString                                  *)
(***************************************************************************)
\* nodeRows.forEach(row => { ... obj[row.key] = row.value })
RECURSIVE CollectRows(_, _)
CollectRows(rows, obj) ==
  IF rows = <<>> THEN obj
  ELSE CollectRows(Tail(rows),
                   IF /\ Head(rows).type # "array"
                      /\ Head(rows).type # "object"
                      /\ Head(rows).key # NoKey
                   THEN AssignEntry(obj, Head(rows).key, Head(rows).value)
                   ELSE obj)

normalizeNodeData(nodeRows) ==
  IF nodeRows = <<>> THEN <<"{", "}">>
  ELSE IF Len(nodeRows) = 1 /\ nodeRows[1].key = NoKey
       THEN String(nodeRows[1].value)
  ELSE JSONstringify(Obj(CollectRows(nodeRows, <<>>)))

\* seg => (typeof seg === "number" ? seg : `"${seg}"`), as join renders it
RenderSegment(seg) ==
  IF seg.t = "number" THEN String(seg) ELSE <<QUOTE>> \o seg.s \o <<QUOTE>>

\* segments.join("][")
RECURSIVE JoinSegments(_)
JoinSegments(segments) ==
  IF segments = <<>> THEN <<>>
  ELSE IF Len(segments) = 1 THEN Head(segments)
  ELSE Head(segments) \o <<"]", "[">> \o JoinSegments(Tail(segments))

\* (a missing path is given as the empty path)
jsonPathToString(path) ==
  IF path = <<>> THEN <<"$">>
  ELSE <<"$", "[">>
       \o JoinSegments([i \in 1..Len(path) |-> RenderSegment(path[i])])
       \o <<"]">>

(***************************************************************************)
(* Node Store                                                              *)
(***************************************************************************)
Node(id, path, text) == [id |-> id, path |-> path, text |-> text]

\* nodes.find(n => n.id === id)
FindNode(ns, id) ==
  IF \E i \in 1..Len(ns) : ns[i].id = id
  THEN ns[CHOOSE i \in 1..Len(ns) :
            ns[i].id = id /\ \A j \in 1..(i - 1) : ns[j].id # id]
  ELSE Null

\* the rows with each update's value put at the update's index
RECURSIVE UpdateRows(_, _)
UpdateRows(rows, updates) ==
  IF updates = <<>> THEN rows
  ELSE LET u == Head(updates)
           i == u.index + 1
       IN UpdateRows(IF i \in 1..Len(rows)
                     THEN ReplaceAt(rows, i,
                                    Row(rows[i].key, u.value, rows[i].type))
                     ELSE rows,
                     Tail(updates))

\* updateNodeValues(id, updates): the rows of node id take the new values
RECURSIVE updateNodeValues(_, _, _)
updateNodeValues(ns, id, updates) ==
  IF ns = <<>> THEN <<>>
  ELSE << IF Head(ns).id = id
          THEN Node(Head(ns).id, Head(ns).path,
                    UpdateRows(Head(ns).text, updates))
          ELSE Head(ns) >>
       \o updateNodeValues(Tail(ns), id, updates)

(***************************************************************************)
(* The document sync step of Save (the try block)                          *)
(***************************************************************************)
\* variant: only the first update is applied
ApplyUpdates_FirstOnly(target, rows, updates) ==
  IF updates = <<>> THEN [threw |-> FALSE, v |-> target]
  ELSE LET u == Head(updates)
           hasRow == u.index + 1 \in 1..Len(rows)
       IN IF hasRow /\ rows[u.index + 1].key # NoKey
          THEN SetProperty(target, rows[u.index + 1].key, u.value)
          ELSE [threw |-> FALSE, v |-> target]

\* updates.forEach(u => { row = text[u.index]; if (row && row.key) ... })
RECURSIVE ApplyUpdates(_, _, _)
ApplyUpdates(target, rows, updates) ==
  IF updates = <<>> THEN [threw |-> FALSE, v |-> target]
  ELSE LET u == Head(updates)
           hasRow == u.index + 1 \in 1..Len(rows)
           r == IF hasRow /\ rows[u.index + 1].key # NoKey
                THEN SetProperty(target, rows[u.index + 1].key, u.value)
                ELSE [threw |-> FALSE, v |-> target]
       IN IF r.threw THEN r ELSE ApplyUpdates(r.v, rows, Tail(updates))

\* variant: the text is written back even when navigation or assignment
\* failed (setContents moved out of the try block)
PatchDocument_WriteOnFail(text, ns, id, updates) ==
  LET parsed == JSONparse(text)
      nodeToUpdate == FindNode(ns, id)
  IN IF ~parsed.ok THEN [outcome |-> "failed", contents |-> text]
     ELSE IF nodeToUpdate = Null
          THEN [outcome |-> "skipped", contents |-> text]
     ELSE LET nav == Navigate(parsed.v, nodeToUpdate.path)
              ap == IF nav.threw THEN nav
                    ELSE ApplyUpdates(nav.v, nodeToUpdate.text, updates)
          IN IF ap.threw
             THEN [outcome |-> "failed", contents |-> JSONstringify(parsed.v)]
             ELSE LET tree == SetAtPath(parsed.v, nodeToUpdate.path, ap.v)
                  IN [outcome |-> "written",
                      contents |-> JSONstringify(tree),
                      tree |-> tree]

\* variant: the navigated-to subtree is serialised instead of the document
PatchDocument_StringifyTarget(text, ns, id, updates) ==
  LET parsed == JSONparse(text)
      nodeToUpdate == FindNode(ns, id)
      failed == [outcome |-> "failed", contents |-> text]
  IN IF ~parsed.ok THEN failed
     ELSE IF nodeToUpdate = Null
          THEN [outcome |-> "skipped", contents |-> text]
     ELSE LET nav == Navigate(parsed.v, nodeToUpdate.path)
          IN IF nav.threw THEN failed
             ELSE LET ap == ApplyUpdates(nav.v, nodeToUpdate.text, updates)
                  IN IF ap.threw THEN failed
                     ELSE [outcome |-> "written",
                           contents |-> JSONstringify(ap.v),
                           tree |-> ap.v]

\* outcome "written": setContents was called with `contents`;
\* "skipped": the node was not found, nothing written, nothing reported;
\* "failed": an exception reached the catch block and was reported
PatchDocument(text, ns, id, updates) ==
  LET parsed == JSONparse(text)
      nodeToUpdate == FindNode(ns, id)
      failed == [outcome |-> "failed", contents |-> text]
  IN IF ~parsed.ok THEN failed
     ELSE IF nodeToUpdate = Null
          THEN [outcome |-> "skipped", contents |-> text]
     ELSE LET nav == Navigate(parsed.v, nodeToUpdate.path)
          IN IF nav.threw THEN failed
             ELSE LET ap == ApplyUpdates(nav.v, nodeToUpdate.text, updates)
                  IN IF ap.threw THEN failed
                     ELSE LET tree == SetAtPath(parsed.v, nodeToUpdate.path, ap.v)
                          IN [outcome |-> "written",
                              contents |-> JSONstringify(tree),
                              tree |-> tree]

(***************************************************************************)
(* Bounds and the inputs of the model                                      *)
(***************************************************************************)
\* number of saves that write (caps refreshKey, and with it the timers)
MaxRefreshKey == 2

\* the texts a user types into a field
EditTexts ==
  { TxtNull, <<"7">>, TxtInfinity }

\* the document the graph was built from:
\* {"f":true,"c":{"n":"b","a":3,"k":[{"z":null}]}}
DocTree ==
  Obj(<< [k |-> <<"f">>, v |-> Bool(TRUE)],
         [k |-> <<"c">>,
          v |-> Obj(<< [k |-> <<"n">>, v |-> Str(<<"b">>)],
                       [k |-> <<"a">>, v |-> Num(3)],
                       [k |-> <<"k">>,
                        v |-> Arr(<< Obj(<< [k |-> <<"z">>, v |-> Null] >>) >>)] >>)] >>)

\* the node views the graph builder derived from DocTree
GraphNodes ==
  << Node("1", <<>>,
          << Row(<<"f">>, Bool(TRUE), "boolean"),
             Row(<<"c">>, Null, "object") >>),
     Node("2", << Str(<<"c">>) >>,
          << Row(<<"n">>, Str(<<"b">>), "string"),
             Row(<<"a">>, Num(3), "number"),
             Row(<<"k">>, Null, "array") >>),
     Node("3", << Str(<<"c">>), Str(<<"k">>), Num(0) >>,
          << Row(<<"z">>, Null, "null") >>) >>

\* the text the editor holds for DocTree
TextPretty == JSONstringify(DocTree)

\* {"c":{"k":[]}}: the maps exist, the rows' keys and the element 0 do not
TextNoRows ==
  <<"{", QUOTE, "c", QUOTE, ":", "{", QUOTE, "k", QUOTE, ":", "[", "]",
    "}", "}">>

\* {"c":5}: "c" is a scalar
TextScalar ==
  <<"{", QUOTE, "c", QUOTE, ":", "5", "}">>

\* {"c":[1]}: "c" is a sequence
TextArray ==
  <<"{", QUOTE, "c", QUOTE, ":", "[", "1", "]", "}">>

\* {"c":null}
TextNullC ==
  <<"{", QUOTE, "c", QUOTE, ":", "n", "u", "l", "l", "}">>

\* {"c":{"k":"zz"}}: "k" is a string, whose index 0 is a character
TextString ==
  <<"{", QUOTE, "c", QUOTE, ":", "{", QUOTE, "k", QUOTE, ":", QUOTE, "z",
    "z", QUOTE, "}", "}">>

\* {"c": an unfinished edit of the text
TextBroken ==
  <<"{", QUOTE, "c", QUOTE, ":">>

InitialContents ==
  { TextPretty, TextNoRows, TextScalar, TextArray, TextNullC, TextString,
    TextBroken }

(***************************************************************************)
(* State                                                                   *)
(***************************************************************************)
VARIABLES
  contents,        \* Document Store: useFile contents
  nodes,           \* Node Store: useGraph nodes
  selectedNode,    \* Node Store: useGraph selectedNode (nodeData)
  isEditing,       \* React state
  editFields,      \* React state: key -> pending text
  refreshKey,      \* React state
  codeRefreshKey,  \* React state
  timers,          \* pending setTimeout(() => setIsEditing(false), 100)
  lastEvent,       \* the handler that ran last; for Save, how it ended
  call             \* the function application under study (function specs)

vars ==
  << contents, nodes, selectedNode, isEditing, editFields, refreshKey,
     codeRefreshKey, timers, lastEvent, call >>

NoCall == [fn |-> "none"]

NoFields == <<>>

Init ==
  /\ contents \in InitialContents
  /\ nodes = GraphNodes
  /\ selectedNode \in {GraphNodes[i] : i \in 1..Len(GraphNodes)}
  /\ isEditing = FALSE
  /\ editFields = NoFields
  /\ refreshKey = 0
  /\ codeRefreshKey = 0
  /\ timers = 0
  /\ lastEvent = "open"
  /\ call = NoCall

(***************************************************************************)
(* Handlers                                                                *)
(***************************************************************************)
\* the Edit button is rendered only while not editing; the effect that
\* seeds the fields runs with the render that follows
handleEditClick ==
  /\ ~isEditing
  /\ isEditing' = TRUE
  /\ editFields' = SeedEffect(TRUE, selectedNode, editFields)
  /\ lastEvent' = "edit"
  /\ UNCHANGED << contents, nodes, selectedNode, refreshKey, codeRefreshKey,
                  timers, call >>

\* a text input exists for every editable row while editing
handleFieldChange(key, value) ==
  /\ isEditing
  /\ selectedNode # Null
  /\ \E i \in 1..Len(selectedNode.text) :
       IsEditableRow(selectedNode.text[i]) /\ selectedNode.text[i].key = key
  /\ editFields' =
       [k \in DOMAIN editFields \cup {key} |->
          IF k = key THEN value ELSE editFields[k]]
  /\ lastEvent' = "change"
  /\ UNCHANGED << contents, nodes, selectedNode, isEditing, refreshKey,
                  codeRefreshKey, timers, call >>

\* variant: the empty-diff branch also defers leaving edit mode
handleSaveClick_DeferNoop ==
  /\ isEditing
  /\ selectedNode # Null
  /\ LET updates == ComputeUpdates(selectedNode.text, editFields)
     IN IF updates # <<>>
        THEN LET ns == updateNodeValues(nodes, selectedNode.id, updates)
                 patch == PatchDocument(contents, ns, selectedNode.id, updates)
                 updatedNode == FindNode(ns, selectedNode.id)
                 sel == IF updatedNode # Null THEN updatedNode ELSE selectedNode
             IN /\ refreshKey < MaxRefreshKey
                /\ nodes' = ns
                /\ contents' = patch.contents
                /\ selectedNode' = sel
                /\ refreshKey' = refreshKey + 1
                /\ codeRefreshKey' = codeRefreshKey + 1
                /\ timers' = timers + 1
                /\ editFields' = IF sel # selectedNode
                                 THEN SeedEffect(isEditing, sel, editFields)
                                 ELSE editFields
                /\ lastEvent' = "save_" \o patch.outcome
                /\ UNCHANGED << isEditing, call >>
        ELSE /\ timers < MaxRefreshKey
             /\ timers' = timers + 1
             /\ lastEvent' = "save_noop"
             /\ UNCHANGED << contents, nodes, selectedNode, editFields,
                             isEditing, refreshKey, codeRefreshKey, call >>

\* variant: no catch block; a failure of the sync step ends the handler
\* after updateNodeValues, before the refresh and the setTimeout
handleSaveClick_Uncaught ==
  /\ isEditing
  /\ selectedNode # Null
  /\ LET updates == ComputeUpdates(selectedNode.text, editFields)
     IN IF updates # <<>>
        THEN LET ns == updateNodeValues(nodes, selectedNode.id, updates)
                 patch == PatchDocument(contents, ns, selectedNode.id, updates)
                 updatedNode == FindNode(ns, selectedNode.id)
                 sel == IF updatedNode # Null THEN updatedNode ELSE selectedNode
             IN IF patch.outcome = "failed"
                THEN /\ nodes' = ns
                     /\ lastEvent' = "save_failed"
                     /\ UNCHANGED << contents, selectedNode, isEditing,
                                     editFields, refreshKey, codeRefreshKey,
                                     timers, call >>
                ELSE /\ refreshKey < MaxRefreshKey
                     /\ nodes' = ns
                     /\ contents' = patch.contents
                     /\ selectedNode' = sel
                     /\ refreshKey' = refreshKey + 1
                     /\ codeRefreshKey' = codeRefreshKey + 1
                     /\ timers' = timers + 1
                     /\ editFields' = IF sel # selectedNode
                                      THEN SeedEffect(isEditing, sel, editFields)
                                      ELSE editFields
                     /\ lastEvent' = "save_" \o patch.outcome
                     /\ UNCHANGED << isEditing, call >>
        ELSE /\ isEditing' = FALSE
             /\ lastEvent' = "save_noop"
             /\ UNCHANGED << contents, nodes, selectedNode, editFields,
                             refreshKey, codeRefreshKey, timers, call >>

\* variant: the selected node is not read again from the store
handleSaveClick_NoRefresh ==
  /\ isEditing
  /\ selectedNode # Null
  /\ LET updates == ComputeUpdates(selectedNode.text, editFields)
     IN IF updates # <<>>
        THEN LET ns == updateNodeValues(nodes, selectedNode.id, updates)
                 patch == PatchDocument(contents, ns, selectedNode.id, updates)
             IN /\ refreshKey < MaxRefreshKey
                /\ nodes' = ns
                /\ contents' = patch.contents
                /\ refreshKey' = refreshKey + 1
                /\ codeRefreshKey' = codeRefreshKey + 1
                /\ timers' = timers + 1
                /\ lastEvent' = "save_" \o patch.outcome
                /\ UNCHANGED << selectedNode, editFields, isEditing, call >>
        ELSE /\ isEditing' = FALSE
             /\ lastEvent' = "save_noop"
             /\ UNCHANGED << contents, nodes, selectedNode, editFields,
                             refreshKey, codeRefreshKey, timers, call >>

\* the Save button is rendered only while editing; isEditing stays true
\* until the timer fires, and the effect runs again when setSelectedNode
\* replaced nodeData
handleSaveClick ==
  /\ isEditing
  /\ selectedNode # Null
  /\ LET updates == ComputeUpdates(selectedNode.text, editFields)
     IN IF updates # <<>>
        THEN LET ns == updateNodeValues(nodes, selectedNode.id, updates)
                 patch == PatchDocument(contents, ns, selectedNode.id, updates)
                 updatedNode == FindNode(ns, selectedNode.id)
                 sel == IF updatedNode # Null THEN updatedNode ELSE selectedNode
             IN /\ refreshKey < MaxRefreshKey
                /\ nodes' = ns
                /\ contents' = patch.contents
                /\ selectedNode' = sel
                /\ refreshKey' = refreshKey + 1
                /\ codeRefreshKey' = codeRefreshKey + 1
                /\ timers' = timers + 1
                /\ editFields' = IF sel # selectedNode
                                 THEN SeedEffect(isEditing, sel, editFields)
                                 ELSE editFields
                /\ lastEvent' = "save_" \o patch.outcome
                /\ UNCHANGED << isEditing, call >>
        ELSE /\ isEditing' = FALSE
             /\ lastEvent' = "save_noop"
             /\ UNCHANGED << contents, nodes, selectedNode, editFields,
                             refreshKey, codeRefreshKey, timers, call >>

\* variant: the pending texts are kept
handleCancelClick_KeepFields ==
  /\ isEditing
  /\ isEditing' = FALSE
  /\ lastEvent' = "cancel"
  /\ UNCHANGED << contents, nodes, selectedNode, editFields, refreshKey,
                  codeRefreshKey, timers, call >>

\* the Cancel button is rendered only while editing
handleCancelClick ==
  /\ isEditing
  /\ editFields' = NoFields
  /\ isEditing' = FALSE
  /\ lastEvent' = "cancel"
  /\ UNCHANGED << contents, nodes, selectedNode, refreshKey, codeRefreshKey,
                  timers, call >>

\* the callback of setTimeout(() => setIsEditing(false), 100)
TimerFire ==
  /\ timers > 0
  /\ timers' = timers - 1
  /\ isEditing' = FALSE
  /\ lastEvent' = "timer"
  /\ UNCHANGED << contents, nodes, selectedNode, editFields, refreshKey,
                  codeRefreshKey, call >>

Next ==
  \/ handleEditClick
  \/ \E key \in {<<"f">>, <<"n">>, <<"a">>, <<"z">>},
        value \in EditTexts : handleFieldChange(key, value)
  \/ handleSaveClick
  \/ handleCancelClick
  \/ TimerFire

Spec == Init /\ [][Next]_vars

\* a scheduled timer callback eventually runs
FairSpec == Spec /\ WF_vars(TimerFire)

(***************************************************************************)
(* Function specifications: the stores stay idle, `call` holds the inputs  *)
(* of one application and then its results.                                *)
(***************************************************************************)
IdleStores ==
  /\ contents = <<>>
  /\ nodes = <<>>
  /\ selectedNode = Null
  /\ isEditing = FALSE
  /\ editFields = NoFields
  /\ refreshKey = 0
  /\ codeRefreshKey = 0
  /\ timers = 0
  /\ lastEvent = "open"

StoresUnchanged ==
  UNCHANGED << contents, nodes, selectedNode, isEditing, editFields,
               refreshKey, codeRefreshKey, timers, lastEvent >>

\* longest raw text built from the alphabet
RawLen == 2

RawAlphabet == {"0", "1", "7", "-", "+", " ", "a"}

RawTexts ==
  UNION {[1..n -> RawAlphabet] : n \in 0..RawLen}
  \cup { TxtNull, TxtTrue, TxtFalse, TxtNaN, TxtInfinity,
         <<"-">> \o TxtInfinity, <<"4", "2">>, <<"0", "4", "2">>,
         <<"0", "0", "7">>, <<"a", "b", "c">> }

InitCoerce ==
  /\ IdleStores
  /\ call \in {[fn |-> "coerceValue", stage |-> "input", raw |-> r] :
                 r \in RawTexts}

\* coerce the raw text, render the value as the diff renders row values,
\* and diff a row holding the value against the same pending text
CoerceStep ==
  /\ call.fn = "coerceValue"
  /\ call.stage = "input"
  /\ LET value == coerceValue(call.raw)
     IN call' = [fn |-> "coerceValue", stage |-> "done", raw |-> call.raw,
                 value |-> value,
                 text |-> String(value),
                 updates |->
                   ComputeUpdates(<< Row(<<"a">>, value, "string") >>,
                                  [k \in {<<"a">>} |-> call.raw])]
  /\ StoresUnchanged

NextCoerce == CoerceStep

SpecCoerce == InitCoerce /\ [][NextCoerce]_vars

\* the values an update can carry
PatchValues == {coerceValue(t) : t \in EditTexts} \cup {Str(<<>>)}

\* the non-empty diffs of a node view: one update per chosen editable row,
\* in row order
DiffsOf(node) ==
  LET idx == {i - 1 : i \in {j \in 1..Len(node.text) :
                               IsEditableRow(node.text[j])}}
  IN {<<[index |-> i, value |-> v]>> : i \in idx, v \in PatchValues}
     \cup {<<[index |-> p[1], value |-> v], [index |-> p[2], value |-> w]>> :
             p \in {q \in idx \X idx : q[1] < q[2]},
             v \in PatchValues, w \in PatchValues}

InitPatch ==
  /\ IdleStores
  /\ \E t \in InitialContents, n \in 1..Len(GraphNodes) :
       \E us \in DiffsOf(GraphNodes[n]) :
         call = [fn |-> "patch", stage |-> 0, text |-> t,
                 node |-> GraphNodes[n], updates |-> us]

\* the sync step applied to the document
PatchOnce ==
  /\ call.fn = "patch"
  /\ call.stage = 0
  /\ call' = [fn |-> "patch", stage |-> 1, text |-> call.text,
              node |-> call.node, updates |-> call.updates,
              once |-> PatchDocument(call.text, GraphNodes, call.node.id,
                                     call.updates)]
  /\ StoresUnchanged

\* the same diff applied to the text the first application left
PatchTwice ==
  /\ call.fn = "patch"
  /\ call.stage = 1
  /\ call' = [fn |-> "patch", stage |-> 2, text |-> call.text,
              node |-> call.node, updates |-> call.updates,
              once |-> call.once,
              twice |-> PatchDocument(call.once.contents, GraphNodes,
                                      call.node.id, call.updates)]
  /\ StoresUnchanged

NextPatch == PatchOnce \/ PatchTwice

SpecPatch == InitPatch /\ [][NextPatch]_vars

(***************************************************************************)
(* Vocabulary of the properties                                            *)
(***************************************************************************)
SaveEvents == {"save_noop", "save_written", "save_failed", "save_skipped"}

\* the rows a Save changes, and the value each takes, read off the view
\* and the edit session
RowChanges(i) ==
  /\ IsEditableRow(selectedNode.text[i])
  /\ selectedNode.text[i].key \in DOMAIN editFields
  /\ String(selectedNode.text[i].value) # editFields[selectedNode.text[i].key]

ChangedRows == {i \in 1..Len(selectedNode.text) : RowChanges(i)}

NewValue(i) == coerceValue(editFields[selectedNode.text[i].key])

IsContainer(v) == v.t \in {"object", "array"}

\* some lookup along the path meets a non-container, a missing key or an
\* index out of range
RECURSIVE PathBreaks(_, _)
PathBreaks(tree, path) ==
  IF path = <<>> THEN FALSE
  ELSE LET seg == Head(path)
       IN CASE tree.t = "object" ->
                 \/ seg.t # "string"
                 \/ ~HasKey(tree.o, seg.s)
                 \/ PathBreaks(LookupEntry(tree.o, seg.s), Tail(path))
            [] tree.t = "array" ->
                 \/ seg.t # "number"
                 \/ seg.n + 1 \notin 1..Len(tree.a)
                 \/ PathBreaks(tree.a[seg.n + 1], Tail(path))
            [] OTHER -> TRUE

\* the subtree a path that does not break leads to
RECURSIVE Subtree(_, _)
Subtree(tree, path) ==
  IF path = <<>> THEN tree
  ELSE IF tree.t = "object"
       THEN Subtree(LookupEntry(tree.o, Head(path).s), Tail(path))
       ELSE Subtree(tree.a[Head(path).n + 1], Tail(path))

ResolvesToMap(text, path) ==
  LET parsed == JSONparse(text)
  IN /\ parsed.ok
     /\ ~PathBreaks(parsed.v, path)
     /\ Subtree(parsed.v, path).t = "object"

StoredNode == FindNode(nodes, selectedNode.id)

(***************************************************************************)
(* C1: a Save with a non-empty diff whose document sync fails (the text    *)
(* does not parse, or the path cannot be followed) keeps the Node Store    *)
(* update: afterwards every changed row holds its coerced new value in the *)
(* Node Store and the Document Store text is the old text.                 *)
(***************************************************************************)
C1_FailedSyncKeepsNodeUpdate ==
  [][ ( /\ lastEvent' \in SaveEvents
        /\ ChangedRows # {}
        /\ LET parsed == JSONparse(contents)
           IN ~parsed.ok \/ PathBreaks(parsed.v, selectedNode.path) )
      => ( /\ contents' = contents
           /\ \A i \in ChangedRows :
                FindNode(nodes', selectedNode.id).text[i].value = NewValue(i) )
    ]_vars

C1_Witness ==
  /\ lastEvent = "save_failed"
  /\ contents = TextNoRows
  /\ selectedNode.id = "3"
  /\ StoredNode.text # GraphNodes[3].text

(***************************************************************************)
(* C2: a Save issued right after entering Editing, with no field change in *)
(* between, has an empty diff and modifies neither store.                  *)
(***************************************************************************)
C2_UntouchedSessionSavesNothing ==
  [][ (lastEvent = "edit" /\ lastEvent' \in SaveEvents)
      => (lastEvent' = "save_noop" /\ nodes' = nodes /\ contents' = contents)
    ]_vars

\* the entries with the new value of every changed row under its key
RECURSIVE WithValues(_, _)
WithValues(entries, i) ==
  IF i > Len(selectedNode.text) THEN entries
  ELSE WithValues(IF RowChanges(i)
                  THEN AssignEntry(entries, selectedNode.text[i].key, NewValue(i))
                  ELSE entries,
                  i + 1)

(***************************************************************************)
(* C3: a Save with a non-empty diff on a text that parses and a path that  *)
(* resolves to a map leaves in the Document Store the 2-space pretty print *)
(* of a tree whose resolved map holds, under the key of every changed row, *)
(* that row's coerced new value.  (Each intermediate value is bound        *)
(* through a one-element set, so that it is computed once.)                *)
(***************************************************************************)
C3_PatchWritesEveryUpdate ==
  [][ ( /\ lastEvent' \in SaveEvents
        /\ ChangedRows # {}
        /\ ResolvesToMap(contents, selectedNode.path) )
      => ( /\ ResolvesToMap(contents', selectedNode.path)
           /\ \A back \in {JSONparse(contents').v} :
              \A map \in {Subtree(back, selectedNode.path)} :
              \A tree \in {SetAtPath(back, selectedNode.path,
                                     Obj(WithValues(map.o, 1)))} :
              \A resolved \in {Subtree(tree, selectedNode.path)} :
                /\ \A i \in ChangedRows :
                     LookupEntry(resolved.o, selectedNode.text[i].key)
                       = NewValue(i)
                /\ \A i \in ChangedRows :
                     HasKey(map.o, selectedNode.text[i].key)
                /\ contents' = JSONstringify(tree) )
    ]_vars

C3_Witness ==
  /\ lastEvent = "save_written"
  /\ refreshKey = 1
  /\ selectedNode.id = "2"
  /\ StoredNode.text[1].value # GraphNodes[2].text[1].value
  /\ StoredNode.text[2].value # GraphNodes[2].text[2].value
  /\ ResolvesToMap(contents, selectedNode.path)

(***************************************************************************)
(* C4: when the text parses but the path cannot be followed, the sync step *)
(* reports an error and the Document Store text is left exactly as it was. *)
(***************************************************************************)
C4_BrokenPathWritesNothing ==
  [][ ( /\ lastEvent' \in SaveEvents
        /\ ChangedRows # {}
        /\ LET parsed == JSONparse(contents)
           IN parsed.ok /\ PathBreaks(parsed.v, selectedNode.path) )
      => (lastEvent' = "save_failed" /\ contents' = contents)
    ]_vars

C4_Witness ==
  /\ lastEvent = "save_failed"
  /\ contents = TextScalar
  /\ selectedNode.id = "3"
  /\ refreshKey = 1

(***************************************************************************)
(* C5: a Save whose diff is empty goes straight to Viewing; Node Store,    *)
(* Document Store text and selected node are unchanged and no deferred     *)
(* callback is scheduled.                                                  *)
(***************************************************************************)
C5_NoopSaveOnlyLeavesEditing ==
  [][ (lastEvent' \in SaveEvents /\ ChangedRows = {})
      => ( /\ ~isEditing'
           /\ nodes' = nodes
           /\ contents' = contents
           /\ selectedNode' = selectedNode
           /\ timers' = timers )
    ]_vars

C5_Witness ==
  /\ lastEvent = "save_noop"
  /\ ~isEditing
  /\ editFields # NoFields
  /\ nodes = GraphNodes

(***************************************************************************)
(* C6: Cancel empties the edit session and reaches Viewing in the same     *)
(* step, leaving Node Store, Document Store text and selected node as they *)
(* were, whatever the session held.                                        *)
(***************************************************************************)
C6_CancelDiscardsSession ==
  [][ (isEditing /\ lastEvent' = "cancel")
      => ( /\ editFields' = NoFields
           /\ ~isEditing'
           /\ nodes' = nodes
           /\ contents' = contents
           /\ selectedNode' = selectedNode )
    ]_vars

C6_Witness ==
  /\ lastEvent = "cancel"
  /\ ~isEditing
  /\ editFields = NoFields
  /\ selectedNode.id = "2"

(***************************************************************************)
(* C7: every Save issued in Editing is followed by Viewing, whether the    *)
(* diff was empty, the sync succeeded or the sync failed.                  *)
(***************************************************************************)
C7_SaveLeadsToViewing == (lastEvent \in SaveEvents) ~> ~isEditing

C7_Witness ==
  /\ lastEvent = "timer"
  /\ ~isEditing
  /\ timers = 0
  /\ contents = TextBroken
  /\ nodes # GraphNodes

(***************************************************************************)
(* C8: while a Save with a non-empty diff is in flight (still Editing      *)
(* after it), no field change, Save or enter-edit is accepted.             *)
(***************************************************************************)
C8_NoActionWhileSaveInFlight ==
  [][ (isEditing /\ lastEvent \in SaveEvents \ {"save_noop"})
      => lastEvent' \notin ({"change", "edit"} \cup SaveEvents)
    ]_vars

(***************************************************************************)
(* C9: applying a non-empty diff to a document whose path resolves, and    *)
(* then again to the result, gives the same tree and the same text as      *)
(* applying it once.                                                       *)
(***************************************************************************)
ResolvesToContainer(text, path) ==
  LET parsed == JSONparse(text)
  IN /\ parsed.ok
     /\ ~PathBreaks(parsed.v, path)
     /\ IsContainer(Subtree(parsed.v, path))

C9_PatchIsIdempotent ==
  ( /\ call.fn = "patch"
    /\ call.stage = 2
    /\ ResolvesToContainer(call.text, call.node.path) )
  => ( /\ call.once.outcome = "written"
       /\ call.twice.outcome = "written"
       /\ call.twice.contents = call.once.contents
       /\ call.twice.tree = call.once.tree )

C9_Witness ==
  /\ call.fn = "patch"
  /\ call.stage = 2
  /\ Len(call.updates) = 2
  /\ call.text = TextPretty
  /\ call.once.outcome = "written"
  /\ call.once.contents # call.text

(***************************************************************************)
(* C10: rendering coerceValue(raw) as text gives back raw, so a row that   *)
(* holds the coerced value of a text yields no update against that text.   *)
(***************************************************************************)
C10_CoercionRoundTrips ==
  (call.fn = "coerceValue" /\ call.stage = "done")
  => (call.text = call.raw /\ call.updates = <<>>)

C10_Witness ==
  /\ call.fn = "coerceValue"
  /\ call.stage = "done"
  /\ call.raw = <<"4", "2">>
  /\ call.value = Num(42)

(***************************************************************************)
(* C11: coerceValue gives every raw text a value of one of the four scalar *)
(* kinds: "null" gives null, "true" and "false" give the booleans, a       *)
(* number is returned only when it is Number(raw) and rendering it gives   *)
(* raw back ("42" is 42; "042", "007" and "" stay strings), and every      *)
(* other text is returned verbatim as a string.                            *)
(***************************************************************************)
KeywordTexts == {TxtNull, TxtTrue, TxtFalse}

C11_CoercionClassifies ==
  (call.fn = "coerceValue" /\ call.stage = "done")
  => ( /\ call.value.t \in {"null", "boolean", "number", "string"}
       /\ (call.raw = TxtNull) <=> (call.value = Null)
       /\ (call.raw = TxtTrue) <=> (call.value = Bool(TRUE))
       /\ (call.raw = TxtFalse) <=> (call.value = Bool(FALSE))
       /\ call.value.t = "number"
            => ( /\ call.value = Number(call.raw)
                 /\ call.value # NaN
                 /\ String(Number(call.raw)) = call.raw )
       /\ (call.raw \notin KeywordTexts /\ call.value.t # "number")
            => call.value = Str(call.raw)
       /\ call.raw = <<"4", "2">> => call.value = Num(42)
       /\ call.raw \in {<<"0", "4", "2">>, <<"0", "0", "7">>, <<>>}
            => call.value = Str(call.raw) )

C11_Witness ==
  /\ call.fn = "coerceValue"
  /\ call.stage = "done"
  /\ call.raw = <<"0", "0", "7">>
  /\ call.value = Str(<<"0", "0", "7">>)

(***************************************************************************)
(* Function specification of the diff: `call` holds the rows and the edit  *)
(* session, then the updates computed from them.                           *)
(***************************************************************************)
\* longest row sequence handed to the diff and to normalizeNodeData
MaxRows == 2

DiffKeys == {NoKey, <<"a">>, <<"b">>}

\* value and kind of a row, as the graph builder pairs them
DiffCells ==
  { <<Num(3), "number">>, <<Null, "null">>, <<Str(<<"7">>), "string">>,
    <<Null, "array">>, <<Null, "object">> }

DiffRows == {Row(k, c[1], c[2]) : k \in DiffKeys, c \in DiffCells}

DiffRowSeqs == UNION {[1..n -> DiffRows] : n \in 0..MaxRows}

\* edit sessions: pending texts under some of the keys; "x" matches no row
DiffSessions ==
  UNION {[ks -> {<<"3">>, <<"7">>}] : ks \in SUBSET {<<"a">>, <<"b">>, <<"x">>}}

InitDiff ==
  /\ IdleStores
  /\ call \in {[fn |-> "diff", stage |-> "input", rows |-> rs, fields |-> f] :
                 rs \in DiffRowSeqs, f \in DiffSessions}

DiffStep ==
  /\ call.fn = "diff"
  /\ call.stage = "input"
  /\ call' = [fn |-> "diff", stage |-> "done", rows |-> call.rows,
              fields |-> call.fields,
              updates |-> ComputeUpdates(call.rows, call.fields)]
  /\ StoresUnchanged

NextDiff == DiffStep

SpecDiff == InitDiff /\ [][NextDiff]_vars

(***************************************************************************)
(* C12: the diff holds an update for a row exactly when the row's kind is  *)
(* not array/object, its key is present, the session has a pending text    *)
(* for the key and that text differs from the row's value rendered as      *)
(* text; every update points at a row, and the updates are in strictly     *)
(* increasing row order (so no two share an index).                        *)
(***************************************************************************)
C12_DiffIsExactlyTheChangedRows ==
  (call.fn = "diff" /\ call.stage = "done")
  => ( /\ \A i \in 1..Len(call.rows) :
            (\E j \in 1..Len(call.updates) : call.updates[j].index = i - 1)
            <=> ( /\ call.rows[i].type \notin {"array", "object"}
                  /\ call.rows[i].key # NoKey
                  /\ call.rows[i].key \in DOMAIN call.fields
                  /\ call.fields[call.rows[i].key]
                       # String(call.rows[i].value) )
       /\ \A j \in 1..Len(call.updates) :
            call.updates[j].index + 1 \in 1..Len(call.rows)
       /\ \A j \in 1..Len(call.updates) : \A k \in (j + 1)..Len(call.updates) :
            call.updates[j].index < call.updates[k].index )

\* two rows change and the session holds a key that matches no row
C12_Witness ==
  /\ call.fn = "diff"
  /\ call.stage = "done"
  /\ Len(call.updates) = 2
  /\ <<"x">> \in DOMAIN call.fields
  /\ call.rows[1].key # call.rows[2].key

(***************************************************************************)
(* C13: a Save with a non-empty diff whose document sync wrote the text    *)
(* adopts as read state the view the Node Store holds for the same id      *)
(* after updateNodeValues: it carries the new value of every changed row   *)
(* and is not the view the edit started from; and whenever edit mode is    *)
(* left the read state is the view the Node Store holds.                   *)
(***************************************************************************)
C13_SaveAdoptsStoredView ==
  [][ /\ ( lastEvent' = "save_written"
           => ( /\ selectedNode' = FindNode(nodes', selectedNode.id)
                /\ selectedNode'.id = selectedNode.id
                /\ selectedNode' # selectedNode
                /\ \A i \in ChangedRows :
                     selectedNode'.text[i].value = NewValue(i) ) )
      /\ ( (isEditing /\ ~isEditing')
           => selectedNode' = FindNode(nodes', selectedNode'.id) )
    ]_vars

\* back in Viewing after a Save that wrote the text, with a changed view
C13_Witness ==
  /\ ~isEditing
  /\ lastEvent = "timer"
  /\ refreshKey > 0
  /\ contents # TextPretty
  /\ ResolvesToMap(contents, selectedNode.path)
  /\ selectedNode \notin {GraphNodes[i] : i \in 1..Len(GraphNodes)}

(***************************************************************************)
(* Function specification of normalizeNodeData: `call` holds the rows,     *)
(* then the text returned for them.                                        *)
(***************************************************************************)
\* row keys: none, a name, and a name that is a canonical array index
NormKeys == {NoKey, <<"b">>, <<"1">>}

NormRows == {Row(k, c[1], c[2]) : k \in NormKeys, c \in DiffCells}

NormRowSeqs == UNION {[1..n -> NormRows] : n \in 0..MaxRows}

InitNormalize ==
  /\ IdleStores
  /\ call \in {[fn |-> "normalizeNodeData", stage |-> "input", rows |-> rs] :
                 rs \in NormRowSeqs}

NormalizeStep ==
  /\ call.fn = "normalizeNodeData"
  /\ call.stage = "input"
  /\ call' = [fn |-> "normalizeNodeData", stage |-> "done",
              rows |-> call.rows, text |-> normalizeNodeData(call.rows)]
  /\ StoresUnchanged

NextNormalize == NormalizeStep

SpecNormalize == InitNormalize /\ [][NextNormalize]_vars

\* the rows that are not containers and have a key, as map entries in row
\* order
RECURSIVE KeyedScalarEntries(_)
KeyedScalarEntries(rows) ==
  IF rows = <<>> THEN <<>>
  ELSE (IF Head(rows).type \notin {"array", "object"} /\ Head(rows).key # NoKey
        THEN <<[k |-> Head(rows).key, v |-> Head(rows).value]>>
        ELSE <<>>)
       \o KeyedScalarEntries(Tail(rows))

DistinctKeys(entries) ==
  \A i \in 1..Len(entries) : \A j \in 1..Len(entries) :
    entries[i].k = entries[j].k => i = j

(***************************************************************************)
(* C14: normalizeNodeData returns "{}" for no rows, the value text of a    *)
(* single row without key, and otherwise the 2-space pretty print of the   *)
(* map holding, in row order, exactly the rows that are not array/object   *)
(* and have a key (stated for rows whose keys are distinct).               *)
(***************************************************************************)
C14_NormalizeIsRowOrderedScalarMap ==
  (call.fn = "normalizeNodeData" /\ call.stage = "done")
  => ( /\ call.rows = <<>> => call.text = <<"{", "}">>
       /\ (Len(call.rows) = 1 /\ call.rows[1].key = NoKey)
            => call.text = String(call.rows[1].value)
       /\ ( /\ call.rows # <<>>
            /\ ~(Len(call.rows) = 1 /\ call.rows[1].key = NoKey)
            /\ DistinctKeys(KeyedScalarEntries(call.rows)) )
            => call.text = JSONstringify(Obj(KeyedScalarEntries(call.rows))) )

(***************************************************************************)
(* Function specification of jsonPathToString: `call` holds the path, then *)
(* the text returned for it.                                               *)
(***************************************************************************)
\* longest path handed to jsonPathToString
MaxPath == 3

\* a key that itself holds a quote and brackets: a"]["b
KeyWithBrackets == <<"a", QUOTE, "]", "[", QUOTE, "b">>

PathSegments ==
  {Num(0), Num(10), Str(<<"a">>), Str(<<"b">>), Str(KeyWithBrackets)}

Paths == UNION {[1..n -> PathSegments] : n \in 0..MaxPath}

InitPath ==
  /\ IdleStores
  /\ call \in {[fn |-> "jsonPathToString", stage |-> "input", path |-> p] :
                 p \in Paths}

PathStep ==
  /\ call.fn = "jsonPathToString"
  /\ call.stage = "input"
  /\ call' = [fn |-> "jsonPathToString", stage |-> "done", path |-> call.path,
              text |-> jsonPathToString(call.path)]
  /\ StoresUnchanged

NextPath == PathStep

SpecPath == InitPath /\ [][NextPath]_vars

\* position of the first "] at or after i (the end of a quoted segment),
\* 0 when there is none
RECURSIVE QuoteEnd(_, _)
QuoteEnd(text, i) ==
  IF i + 1 > Len(text) THEN 0
  ELSE IF text[i] = QUOTE /\ text[i + 1] = "]" THEN i
  ELSE QuoteEnd(text, i + 1)

\* the bracket groups read off a text from position i on: digits between
\* brackets are an integer segment, a quoted text between brackets is a
\* string segment; anything else ends the reading with a "junk" element
RECURSIVE ReadGroups(_, _)
ReadGroups(text, i) ==
  IF i > Len(text) THEN <<>>
  ELSE IF text[i] # "[" \/ i + 1 > Len(text) THEN <<"junk">>
  ELSE IF text[i + 1] = QUOTE
       THEN LET e == QuoteEnd(text, i + 2)
            IN IF e = 0 THEN <<"junk">>
               ELSE <<Str(SubSeq(text, i + 2, e - 1))>>
                    \o ReadGroups(text, e + 2)
  ELSE LET e == DigitsEnd(text, i + 1)
       IN IF e = i + 1 \/ e > Len(text) \/ text[e] # "]" THEN <<"junk">>
          ELSE <<Num(DigitsToNat(SubSeq(text, i + 1, e - 1), 0))>>
               \o ReadGroups(text, e + 1)

(***************************************************************************)
(* C15: jsonPathToString returns "$" for the empty path, and otherwise "$" *)
(* followed by one bracket group per segment in order, bare digits for an  *)
(* integer and a double-quoted text for a string: the bracket groups of    *)
(* the text are as many as the segments and, read in order, are the        *)
(* segments.                                                               *)
(***************************************************************************)
C15_BracketGroupsAreTheSegments ==
  (call.fn = "jsonPathToString" /\ call.stage = "done")
  => ( /\ call.text # <<>>
       /\ Head(call.text) = "$"
       /\ call.path = <<>> => call.text = <<"$">>
       /\ Len(ReadGroups(call.text, 2)) = Len(call.path)
       /\ ReadGroups(call.text, 2) = call.path )

(***************************************************************************)
(* C16: the edit session lives for one editing episode: whenever the modal *)
(* is in Viewing after a step no pending text is held, and a step that     *)
(* enters Editing leaves a session whose keys are exactly the keys of the  *)
(* keyed non-container rows of the current view, each mapped to the row's  *)
(* value rendered as text (the rendering of a null value is the subject of *)
(* C2 and is not constrained here).                                        *)
(***************************************************************************)
EditableKeys(node) ==
  {node.text[i].key : i \in {j \in 1..Len(node.text) :
                               /\ node.text[j].type \notin {"array", "object"}
                               /\ node.text[j].key # NoKey}}

C16_SessionScopedToEpisode ==
  [][ /\ ~isEditing' => editFields' = NoFields
      /\ (~isEditing /\ isEditing')
           => ( /\ DOMAIN editFields' = EditableKeys(selectedNode')
                /\ \A i \in 1..Len(selectedNode'.text) :
                     ( /\ selectedNode'.text[i].key \in DOMAIN editFields'
                       /\ selectedNode'.text[i].type \notin {"array", "object"}
                       /\ selectedNode'.text[i].value # Null )
                     => editFields'[selectedNode'.text[i].key]
                          = String(selectedNode'.text[i].value) )
    ]_vars

(***************************************************************************)
(* The modal opened on a document the graph was built from: the text is    *)
(* the pretty print of DocTree, so every node's path resolves and no sync  *)
(* step fails.                                                             *)
(***************************************************************************)
InitSynced ==
  /\ Init
  /\ contents = TextPretty

SpecSynced == InitSynced /\ [][Next]_vars

\* the text parses, the node's path leads to a map, and under the key of
\* every keyed non-container row the map holds the row's value
AgreesWithDocument(node) ==
  /\ ResolvesToMap(contents, node.path)
  /\ \A map \in {Subtree(JSONparse(contents).v, node.path)} :
       \A i \in 1..Len(node.text) :
         (node.text[i].type \notin {"array", "object"} /\ node.text[i].key # NoKey)
         => ( /\ HasKey(map.o, node.text[i].key)
              /\ LookupEntry(map.o, node.text[i].key) = node.text[i].value )

(***************************************************************************)
(* C17: when no sync step has failed, in Viewing the Document Store and    *)
(* the Node Store agree on the node: the text parses, the node's path      *)
(* leads to a map, and the map holds under each keyed non-container row's  *)
(* key the value the row has in the Node Store.                            *)
(***************************************************************************)
C17_StoresAgreeInViewing ==
  (~isEditing /\ lastEvent # "save_failed") => AgreesWithDocument(StoredNode)

(***************************************************************************)
(* C18: Editing is left only by the Cancel or the Save of the current      *)
(* episode.  Stated for the step that follows entering Editing, where no   *)
(* Save of the episode has run and any pending deferred step was scheduled *)
(* by an earlier episode: if that step leaves Editing, it is a Cancel or a *)
(* Save.                                                                   *)
(***************************************************************************)
C18_OnlyOwnSaveOrCancelLeavesEditing ==
  [][ (isEditing /\ lastEvent = "edit" /\ ~isEditing')
      => lastEvent' \in ({"cancel"} \cup SaveEvents) ]_vars

(***************************************************************************)
(* C19: a Save whose document sync wrote the text changes nothing but the  *)
(* updated keys: along the node's path every sibling keeps its key, place  *)
(* and value, and in the resolved subtree every key that is not the key of *)
(* a changed row is kept with its value and no such key is added.          *)
(***************************************************************************)
UpdatedKeys == {selectedNode.text[i].key : i \in ChangedRows}

RECURSIVE FrameHolds(_, _, _, _)
FrameHolds(before, after, path, keys) ==
  IF path = <<>>
  THEN IF before.t = "object"
       THEN /\ after.t = "object"
            /\ \A i \in 1..Len(before.o) :
                 before.o[i].k \notin keys
                 => ( /\ HasKey(after.o, before.o[i].k)
                      /\ LookupEntry(after.o, before.o[i].k) = before.o[i].v )
            /\ \A j \in 1..Len(after.o) :
                 after.o[j].k \notin keys => HasKey(before.o, after.o[j].k)
       ELSE after = before
  ELSE IF before.t = "object"
       THEN /\ after.t = "object"
            /\ Len(after.o) = Len(before.o)
            /\ \A i \in 1..Len(before.o) :
                 /\ after.o[i].k = before.o[i].k
                 /\ IF Head(path).t = "string" /\ before.o[i].k = Head(path).s
                    THEN FrameHolds(before.o[i].v, after.o[i].v, Tail(path), keys)
                    ELSE after.o[i].v = before.o[i].v
  ELSE IF before.t = "array"
       THEN /\ after.t = "array"
            /\ Len(after.a) = Len(before.a)
            /\ \A i \in 1..Len(before.a) :
                 IF Head(path).t = "number" /\ Head(path) = Num(i - 1)
                 THEN FrameHolds(before.a[i], after.a[i], Tail(path), keys)
                 ELSE after.a[i] = before.a[i]
  ELSE FALSE

C19_PatchChangesOnlyUpdatedKeys ==
  [][ lastEvent' = "save_written"
      => \A before \in {JSONparse(contents)} :
         \A after \in {JSONparse(contents')} :
           /\ before.ok
           /\ after.ok
           /\ FrameHolds(before.v, after.v, selectedNode.path, UpdatedKeys)
    ]_vars

\* a Save on the node at "c" wrote a new value for a, left row n alone and
\* kept the container child k, which still leads to the map under k[0]
C19_Witness ==
  /\ lastEvent = "save_written"
  /\ selectedNode.id = "2"
  /\ selectedNode.text[1].value = Str(<<"b">>)
  /\ selectedNode.text[2].value # Num(3)
  /\ ResolvesToMap(contents, GraphNodes[3].path)
  /\ ResolvesToMap(contents, GraphNodes[1].path)

====
